---- MODULE Spec2Model ----
(***************************************************************************)
(* The workspace edit model of shared/src/api/types/workspaceEdit.ts: an   *)
(* ordered log of operations (text edits and file operations) with an      *)
(* optional list of diagnostics, its queries, its JSON codec and           *)
(* combineWorkspaceEdits.                                                  *)
(*                                                                         *)
(* JavaScript values are records.  A value that the code tests with        *)
(* typeof / truthiness carries a field t naming its kind; objects are      *)
(* records of their own keys, so that a spread {...op, k: v} is With and a *)
(* read of a key that may be absent is Field.  WorkspaceEdit instances and *)
(* the arrays they hold live in a heap and are named by references, so     *)
(* that aliasing between instances is part of the state.                   *)
(***************************************************************************)
EXTENDS Integers, Sequences, FiniteSets, TLC

(* ------------------------------ bounds --------------------------------- *)

\* number of entries (operations and diagnostics) the producers of a run put
\* in their edits, and that the result of combineWorkspaceEdits holds
MaxSize == 3
\* number of langservers entries the site configuration holds at the start
MaxLangservers == 2
\* number of edits given to one combineWorkspaceEdits call
MaxInputs == 2
\* the instances of a run: one per producer, and the combined edit
MaxEdits == MaxInputs + 1

(* --------------------------- JavaScript values ------------------------- *)

Undefined == [t |-> "undefined"]

Str(s) == [t |-> "string", s |-> s]

IsString(v) == v.t = "string"

\* JavaScript truthiness of the values this model holds (objects, arrays and
\* non-empty strings are truthy)
Truthy(v) == v.t # "undefined"

\* a JavaScript array held as a value that may also be undefined
Arr(items) == [t |-> "array", items |-> items]

\* `new URL(s)`: the parsed identifier; URL.toString() and URL.toJSON() give href
NewURL(v) == [t |-> "URL", href |-> v.s]

URLtoString(u) == u.href

URLtoJSON(u) == Str(u.href)

\* {...r, k: v}
With(r, k, v) == [x \in DOMAIN r \cup {k} |-> IF x = k THEN v ELSE r[x]]

\* r.k, undefined when r has no key k
Field(r, k) == IF k \in DOMAIN r THEN r[k] ELSE Undefined

Position(line, character) == [line |-> line, character |-> character]

\* `new Range(start, end)`
Range(start, end) == [start |-> start, end |-> end]

\* `new TextEdit(range, newText)`
TextEdit(range, newText) == [t |-> "TextEdit", range |-> range, newText |-> newText]

\* TextEdit.toJSON(): the plain {range, newText} form
TextEditToJSON(e) == [t |-> "object", range |-> e.range, newText |-> e.newText]

\* TextEdit.fromJSON(plain)
TextEditFromJSON(p) == TextEdit(p.range, p.newText)

\* a sourcegraph.Diagnostic, and its plain form on the wire
Diagnostic(m) == [t |-> "Diagnostic", message |-> m]

fromDiagnostic(d) == [t |-> "object", message |-> d.message]

toDiagnostic(p) == Diagnostic(p.message)

\* WorkspaceEditOperationType
FileOperationType == 0

FileTextEditType == 1

Map(f(_), s) == [k \in 1..Len(s) |-> f(s[k])]

RECURSIVE Flatten(_)
Flatten(ss) == IF ss = <<>> THEN <<>> ELSE Head(ss) \o Flatten(Tail(ss))

(* ------------------------------- queries ------------------------------- *)

\* whether candidate is a FileTextEdit for uri (the test of get, has and set)
IsTextEditFor(candidate, uri) ==
    /\ candidate.type = FileTextEditType
    /\ URLtoString(candidate.uri) = URLtoString(uri)

\* the scan of get as it would be if it stopped at the first edit found
RECURSIVE getFrom_FirstOnly(_, _, _, _)
getFrom_FirstOnly(ops, uri, k, res) ==
    IF k > Len(ops) THEN res
    ELSE IF IsTextEditFor(ops[k], uri) THEN Append(res, ops[k].edit)
    ELSE getFrom_FirstOnly(ops, uri, k + 1, res)

\* get(uri) on the log ops: the scan from entry k on, res collected so far
RECURSIVE getFrom(_, _, _, _)
getFrom(ops, uri, k, res) ==
    IF k > Len(ops) THEN res
    ELSE getFrom(ops, uri, k + 1,
                 IF IsTextEditFor(ops[k], uri) THEN Append(res, ops[k].edit) ELSE res)

get(ops, uri) == getFrom(ops, uri, 1, <<>>)

\* has(uri) as it would be if it also counted a file operation whose
\* destination is uri
RECURSIVE hasFrom_FileOperations(_, _, _)
hasFrom_FileOperations(ops, uri, k) ==
    IF k > Len(ops) THEN FALSE
    ELSE IF \/ IsTextEditFor(ops[k], uri)
            \/ /\ ops[k].type = FileOperationType
               /\ Truthy(ops[k].to)
               /\ URLtoString(ops[k].to) = URLtoString(uri)
         THEN TRUE
    ELSE hasFrom_FileOperations(ops, uri, k + 1)

RECURSIVE hasFrom(_, _, _)
hasFrom(ops, uri, k) ==
    IF k > Len(ops) THEN FALSE
    ELSE IF IsTextEditFor(ops[k], uri) THEN TRUE
    ELSE hasFrom(ops, uri, k + 1)

has(ops, uri) == hasFrom(ops, uri, 1)

\* the Map of groupedEntries is a sequence of entries [key, value] in insertion
\* order, value being the pair <<uri, edits>>
MapIndex(m, key) == {k \in 1..Len(m) : m[k].key = key}

\* groupedEntries as it would be if it never looked a resource up in the map:
\* every FileTextEdit opens a group of its own
RECURSIVE groupedFrom_NoLookup(_, _, _)
groupedFrom_NoLookup(ops, k, textEdits) ==
    IF k > Len(ops) THEN textEdits
    ELSE LET candidate == ops[k] IN
         IF candidate.type = FileTextEditType
         THEN groupedFrom_NoLookup(ops, k + 1,
                  Append(textEdits, [key |-> URLtoString(candidate.uri),
                                     value |-> <<candidate.uri, <<candidate.edit>>>>]))
         ELSE groupedFrom_NoLookup(ops, k + 1, textEdits)

RECURSIVE groupedFrom(_, _, _)
groupedFrom(ops, k, textEdits) ==
    IF k > Len(ops) THEN textEdits
    ELSE LET candidate == ops[k] IN
         IF candidate.type = FileTextEditType
         THEN LET key == URLtoString(candidate.uri)
                  at == MapIndex(textEdits, key)
                  m  == IF at = {}
                        THEN Append(textEdits, [key |-> key, value |-> <<candidate.uri, <<>>>>])
                        ELSE textEdits
                  j  == CHOOSE x \in MapIndex(m, key) : TRUE
              IN groupedFrom(ops, k + 1,
                     [m EXCEPT ![j].value[2] = Append(@, candidate.edit)])
         ELSE groupedFrom(ops, k + 1, textEdits)

groupedEntries(ops) == groupedFrom(ops, 1, <<>>)

\* textEdits(): the values of the map, in insertion order
textEdits(ops) == Map(LAMBDA e : e.value, groupedEntries(ops))

(* -------------------------------- codec -------------------------------- *)

\* one entry of toJSON().operations
toJSONOperation(op) ==
    IF op.type = FileOperationType
    THEN With(With(op, "from", IF Truthy(op.from) THEN URLtoJSON(op.from) ELSE op.from),
              "to", IF Truthy(op.to) THEN URLtoJSON(op.to) ELSE op.to)
    ELSE With(With(op, "uri", URLtoJSON(op.uri)),
              "edit", TextEditToJSON(op.edit))

\* toJSON() of an instance whose log is w.operations and whose diagnostics
\* field is w.diagnostics (an array, or undefined)
toJSON(w) ==
    [operations  |-> Map(toJSONOperation, w.operations),
     diagnostics |-> IF Truthy(w.diagnostics)
                     THEN Arr(Map(fromDiagnostic, w.diagnostics.items))
                     ELSE w.diagnostics]

\* fromJSON's entry as it would be if the destination of a file operation
\* were left as the string it arrived as
fromJSONOperation_ToNotParsed(op) ==
    IF op.type = FileOperationType
    THEN With(op, "from",
              IF Field(op, "from") # Undefined /\ IsString(Field(op, "from"))
              THEN NewURL(Field(op, "from")) ELSE Field(op, "from"))
    ELSE With(With(op, "uri",
                   IF IsString(Field(op, "uri"))
                   THEN NewURL(Field(op, "uri")) ELSE Field(op, "uri")),
              "edit", TextEditFromJSON(Field(op, "edit")))

\* the entry as it would be if only strings were taken as resources, a
\* resource that is a URL already being dropped
fromJSONOperation_DropsTyped(op) ==
    IF op.type = FileOperationType
    THEN With(With(op, "from",
                   IF IsString(Field(op, "from")) THEN NewURL(Field(op, "from")) ELSE Undefined),
              "to",
                   IF IsString(Field(op, "to")) THEN NewURL(Field(op, "to")) ELSE Undefined)
    ELSE With(With(op, "uri",
                   IF IsString(Field(op, "uri")) THEN NewURL(Field(op, "uri")) ELSE Undefined),
              "edit", TextEditFromJSON(Field(op, "edit")))

\* one entry of the log that fromJSON builds
fromJSONOperation(op) ==
    IF op.type = FileOperationType
    THEN With(With(op, "from",
                   IF Field(op, "from") # Undefined /\ IsString(Field(op, "from"))
                   THEN NewURL(Field(op, "from")) ELSE Field(op, "from")),
              "to",
                   IF Field(op, "to") # Undefined /\ IsString(Field(op, "to"))
                   THEN NewURL(Field(op, "to")) ELSE Field(op, "to"))
    ELSE With(With(op, "uri",
                   IF IsString(Field(op, "uri"))
                   THEN NewURL(Field(op, "uri")) ELSE Field(op, "uri")),
              "edit", TextEditFromJSON(Field(op, "edit")))

\* WorkspaceEdit.fromJSON(arg): the fields of the instance it returns
fromJSON(arg) ==
    [operations  |-> Map(fromJSONOperation, arg.operations),
     diagnostics |-> IF Truthy(Field(arg, "diagnostics"))
                     THEN Arr(Map(toDiagnostic, Field(arg, "diagnostics").items))
                     ELSE Field(arg, "diagnostics")]

(* ------------------------------- the heap ------------------------------ *)

VARIABLES
    heap,      \* the WorkspaceEdit instances: heap[i] holds instance i's fields
               \* operations (a reference into opArr) and diagnostics (a
               \* reference into diagArr, 0 when the field is undefined)
    opArr,     \* the operation arrays, by reference
    diagArr,   \* the diagnostics arrays, by reference
    last,      \* the call made last and what it returned
    comb,      \* the last combineWorkspaceEdits call: its edits and its result
    langservers \* the langservers property of the site configuration

vars == <<heap, opArr, diagArr, last, comb, langservers>>

store == <<heap, opArr, diagArr>>

Refs == DOMAIN heap

\* the least reference not in used
Fresh(used) == CHOOSE a \in 1..(Cardinality(used) + 1) :
                   a \notin used /\ \A b \in 1..(a - 1) : b \in used

OpRefs(h) == {h[i].operations : i \in DOMAIN h}

DiagRefs(h) == {h[i].diagnostics : i \in DOMAIN h} \ {0}

\* the fields of instance i as values
Operations(i) == opArr[heap[i].operations]

Diagnostics(i) ==
    IF heap[i].diagnostics = 0 THEN Undefined ELSE Arr(diagArr[heap[i].diagnostics])

Edit(i) == [operations |-> Operations(i), diagnostics |-> Diagnostics(i)]

\* the heap after instance i's field operations is assigned a new array ops;
\* arrays that no instance refers to any more are dropped
AssignOperations(i, ops) ==
    LET a == Fresh({heap[j].operations : j \in Refs \ {i}})
        h == [heap EXCEPT ![i].operations = a]
    IN /\ heap' = h
       /\ opArr' = [x \in OpRefs(h) |-> IF x = a THEN ops ELSE opArr[x]]

\* push as it would be if the new entries were put in front of the array
PushOperations_InFront(i, ops) ==
    opArr' = [opArr EXCEPT ![heap[i].operations] = ops \o @]

\* this.operations.push(...ops) on instance i
PushOperations(i, ops) ==
    opArr' = [opArr EXCEPT ![heap[i].operations] = @ \o ops]

\* a new instance (reference Len(heap) + 1) with the arrays ops and, unless
\* it is undefined, diags
Allocate(ops, diags) ==
    LET a == Fresh(OpRefs(heap))
        d == IF Truthy(diags) THEN Fresh(DiagRefs(heap)) ELSE 0
    IN /\ heap' = Append(heap, [operations |-> a, diagnostics |-> d])
       /\ opArr' = [x \in DOMAIN opArr \cup {a} |-> IF x = a THEN ops ELSE opArr[x]]
       /\ diagArr' = IF d = 0 THEN diagArr
                     ELSE [x \in DOMAIN diagArr \cup {d} |->
                              IF x = d THEN diags.items ELSE diagArr[x]]

(* ------------------------------ mutations ------------------------------ *)

\* the loop of set as it would be without the test of each entry: a hole of
\* the list is pushed as an edit
RECURSIVE setFrom_NoSkip(_, _, _)
setFrom_NoSkip(uri, edits, k) ==
    IF k > Len(edits) THEN <<>>
    ELSE <<[type |-> FileTextEditType, uri |-> uri, edit |-> edits[k]]>>
         \o setFrom_NoSkip(uri, edits, k + 1)

\* the FileTextEdit operations that set(uri, edits) pushes for the entries of
\* edits from k on
RECURSIVE setFrom(_, _, _)
setFrom(uri, edits, k) ==
    IF k > Len(edits) THEN <<>>
    ELSE (IF Truthy(edits[k])
          THEN <<[type |-> FileTextEditType, uri |-> uri, edit |-> edits[k]]>>
          ELSE <<>>) \o setFrom(uri, edits, k + 1)

\* set as it would be if a list replaced the edits of uri instead of being
\* appended to them
set_Overwrite(i, uri, edits) ==
    IF ~Truthy(edits)
    THEN /\ AssignOperations(i, SelectSeq(Operations(i), LAMBDA edit : ~IsTextEditFor(edit, uri)))
         /\ UNCHANGED diagArr
    ELSE /\ AssignOperations(i, SelectSeq(Operations(i), LAMBDA edit : ~IsTextEditFor(edit, uri))
                                    \o setFrom(uri, edits.items, 1))
         /\ UNCHANGED diagArr

\* set as it would be if clearing uri also dropped the file operations on uri
set_ClearsFileOperations(i, uri, edits) ==
    IF ~Truthy(edits)
    THEN /\ AssignOperations(i, SelectSeq(Operations(i),
                LAMBDA edit :
                    IF edit.type = FileTextEditType
                    THEN URLtoString(edit.uri) # URLtoString(uri)
                    ELSE /\ ~(Truthy(edit.from) /\ URLtoString(edit.from) = URLtoString(uri))
                         /\ ~(Truthy(edit.to) /\ URLtoString(edit.to) = URLtoString(uri))))
         /\ UNCHANGED diagArr
    ELSE /\ PushOperations(i, setFrom(uri, edits.items, 1))
         /\ UNCHANGED <<heap, diagArr>>

\* set as it would be if an empty list were taken like no list: the text
\* edits of uri are removed
set_EmptyClears(i, uri, edits) ==
    IF ~Truthy(edits) \/ edits.items = <<>>
    THEN /\ AssignOperations(i, SelectSeq(Operations(i), LAMBDA edit : ~IsTextEditFor(edit, uri)))
         /\ UNCHANGED diagArr
    ELSE /\ PushOperations(i, setFrom(uri, edits.items, 1))
         /\ UNCHANGED <<heap, diagArr>>

\* set(uri, edits?) on instance i
set(i, uri, edits) ==
    IF ~Truthy(edits)
    THEN /\ AssignOperations(i, SelectSeq(Operations(i), LAMBDA edit : ~IsTextEditFor(edit, uri)))
         /\ UNCHANGED diagArr
    ELSE /\ PushOperations(i, setFrom(uri, edits.items, 1))
         /\ UNCHANGED <<heap, diagArr>>

createFile(i, uri, options) ==
    /\ PushOperations(i, <<[type |-> FileOperationType, from |-> Undefined, to |-> uri,
                            options |-> options]>>)
    /\ UNCHANGED <<heap, diagArr>>

deleteFile(i, uri, options) ==
    /\ PushOperations(i, <<[type |-> FileOperationType, from |-> uri, to |-> Undefined,
                            options |-> options]>>)
    /\ UNCHANGED <<heap, diagArr>>

\* renameFile as it would be with from and to exchanged
renameFile_Exchanged(i, from, to, options) ==
    /\ PushOperations(i, <<[type |-> FileOperationType, from |-> to, to |-> from,
                            options |-> options]>>)
    /\ UNCHANGED <<heap, diagArr>>

renameFile(i, from, to, options) ==
    /\ PushOperations(i, <<[type |-> FileOperationType, from |-> from, to |-> to,
                            options |-> options]>>)
    /\ UNCHANGED <<heap, diagArr>>

replace(i, uri, range, newText) ==
    /\ PushOperations(i, <<[type |-> FileTextEditType, uri |-> uri,
                            edit |-> TextEdit(range, newText)]>>)
    /\ UNCHANGED <<heap, diagArr>>

insert(i, resource, position, newText) ==
    replace(i, resource, Range(position, position), newText)

\* delete as it would be if the range given to replace were the empty range
\* at the start of range
delete_AtStart(i, resource, range) ==
    replace(i, resource, Range(range.start, range.start), "")

delete(i, resource, range) ==
    replace(i, resource, range, "")

\* addDiagnostic as it would be if the list were made anew on every call
addDiagnostic_Resets(i, diagnostic) ==
    LET d == IF heap[i].diagnostics = 0 THEN Fresh(DiagRefs(heap)) ELSE heap[i].diagnostics
    IN /\ heap' = [heap EXCEPT ![i].diagnostics = d]
       /\ diagArr' = [x \in DOMAIN diagArr \cup {d} |->
                         IF x = d THEN <<diagnostic>> ELSE diagArr[x]]
       /\ UNCHANGED opArr

addDiagnostic(i, diagnostic) ==
    LET d == IF heap[i].diagnostics = 0 THEN Fresh(DiagRefs(heap)) ELSE heap[i].diagnostics
        list == IF heap[i].diagnostics = 0 THEN <<>> ELSE diagArr[d]
    IN /\ heap' = [heap EXCEPT ![i].diagnostics = d]
       /\ diagArr' = [x \in DOMAIN diagArr \cup {d} |->
                         IF x = d THEN Append(list, diagnostic) ELSE diagArr[x]]
       /\ UNCHANGED opArr

\* new WorkspaceEdit()
NewWorkspaceEdit == Allocate(<<>>, Undefined)

(* ------------------------------- combine ------------------------------- *)

\* the loop as it would be if each edit's entries were put in front of those
\* collected so far
RECURSIVE combinedFrom_Prepends(_, _, _)
combinedFrom_Prepends(edits, k, combined) ==
    IF k > Len(edits) THEN combined
    ELSE LET edit == Edit(edits[k])
             c1 == [combined EXCEPT !.operations = toJSON(edit).operations \o @]
             c2 == IF Truthy(edit.diagnostics)
                   THEN With(c1, "diagnostics",
                             Arr(Map(fromDiagnostic, edit.diagnostics.items)
                                 \o (IF ~Truthy(Field(c1, "diagnostics")) THEN <<>>
                                     ELSE c1.diagnostics.items)))
                   ELSE c1
         IN combinedFrom_Prepends(edits, k + 1, c2)

\* the loop of combineWorkspaceEdits from edits[k] on, over the instances of
\* the heap that edits refers to
RECURSIVE combinedFrom(_, _, _)
combinedFrom(edits, k, combined) ==
    IF k > Len(edits) THEN combined
    ELSE LET edit == Edit(edits[k])
             c1 == [combined EXCEPT !.operations = @ \o toJSON(edit).operations]
             c2 == IF Truthy(edit.diagnostics)
                   THEN With(c1, "diagnostics",
                             Arr((IF ~Truthy(Field(c1, "diagnostics")) THEN <<>>
                                  ELSE c1.diagnostics.items)
                                 \o Map(fromDiagnostic, edit.diagnostics.items)))
                   ELSE c1
         IN combinedFrom(edits, k + 1, c2)

\* combineWorkspaceEdits as it would be if two or more edits were merged into
\* the first of them, which is returned
combineWorkspaceEdits_InPlace(edits, r) ==
    IF Len(edits) = 0
    THEN r = Len(heap) + 1 /\ Allocate(<<>>, Undefined)
    ELSE IF Len(edits) = 1
    THEN r = edits[1] /\ UNCHANGED store
    ELSE /\ r = edits[1]
         /\ opArr' = [opArr EXCEPT ![heap[r].operations] =
                          @ \o Map(fromJSONOperation,
                                   Flatten([k \in 1..(Len(edits) - 1) |->
                                               toJSON(Edit(edits[k + 1])).operations]))]
         /\ UNCHANGED <<heap, diagArr>>

\* combineWorkspaceEdits as it would be if a single edit were returned as a
\* new instance that holds the same arrays
combineWorkspaceEdits_WrapsSingle(edits, r) ==
    IF Len(edits) = 0
    THEN r = Len(heap) + 1 /\ Allocate(<<>>, Undefined)
    ELSE IF Len(edits) = 1
    THEN /\ r = Len(heap) + 1
         /\ heap' = Append(heap, heap[edits[1]])
         /\ UNCHANGED <<opArr, diagArr>>
    ELSE LET w == fromJSON(combinedFrom(edits, 1, [operations |-> <<>>]))
         IN r = Len(heap) + 1 /\ Allocate(w.operations, w.diagnostics)

\* combineWorkspaceEdits as it would be if no edits gave the instance made
\* first, when there is one, instead of a new one each time
combineWorkspaceEdits_SharedEmpty(edits, r) ==
    IF Len(edits) = 0
    THEN IF Len(heap) > 0
         THEN r = 1 /\ UNCHANGED store
         ELSE r = Len(heap) + 1 /\ Allocate(<<>>, Undefined)
    ELSE IF Len(edits) = 1
    THEN r = edits[1] /\ UNCHANGED store
    ELSE LET w == fromJSON(combinedFrom(edits, 1, [operations |-> <<>>]))
         IN r = Len(heap) + 1 /\ Allocate(w.operations, w.diagnostics)

\* combineWorkspaceEdits as it would be if the combined form started with an
\* empty diagnostics list
combineWorkspaceEdits_DiagnosticsAlways(edits, r) ==
    IF Len(edits) = 0
    THEN r = Len(heap) + 1 /\ Allocate(<<>>, Undefined)
    ELSE IF Len(edits) = 1
    THEN r = edits[1] /\ UNCHANGED store
    ELSE LET w == fromJSON(combinedFrom(edits, 1,
                       [operations |-> <<>>, diagnostics |-> Arr(<<>>)]))
         IN r = Len(heap) + 1 /\ Allocate(w.operations, w.diagnostics)

\* combineWorkspaceEdits(edits) returning the reference r
combineWorkspaceEdits(edits, r) ==
    IF Len(edits) = 0
    THEN r = Len(heap) + 1 /\ NewWorkspaceEdit
    ELSE IF Len(edits) = 1
    THEN r = edits[1] /\ UNCHANGED store
    ELSE LET w == fromJSON(combinedFrom(edits, 1, [operations |-> <<>>]))
         IN r = Len(heap) + 1 /\ Allocate(w.operations, w.diagnostics)

(* ------------------------- the calls of a run --------------------------- *)

UriA == NewURL(Str("file:///a"))

UriB == NewURL(Str("file:///b"))

Uris == {UriA, UriB}

P0 == Position(0, 0)

P1 == Position(0, 1)

E0 == TextEdit(Range(P0, P0), "")

E1 == TextEdit(Range(P0, P1), "x")

E2 == TextEdit(Range(P0, P0), "x")

Overwrite == [t |-> "object", overwrite |-> TRUE]

\* The arguments the calls of a run are drawn from.  noted says whether the
\* run records each call in last.
\* One producer: both resources, lists given to set that are empty, hold one
\* edit, and hold two edits around a hole.
Producer ==
    [noted |-> TRUE,
     uris |-> Uris,
     lists |-> {Arr(<<>>), Arr(<<E1>>), Arr(<<E2>>), Arr(<<E2, Undefined, E1>>)},
     ranges |-> {Range(P0, P1)}, positions |-> {P0}, texts |-> {"x"},
     createUris |-> Uris, createOptions |-> {Overwrite},
     deleteUris |-> {UriA}, deleteOptions |-> {Undefined},
     renameFrom |-> {UriA}, renameTo |-> Uris, renameOptions |-> {Undefined},
     diagnostics |-> {Diagnostic("d1"), Diagnostic("d2")}]

\* Several producers whose edits are combined: text edits of one resource,
\* file operations of the other, two diagnostics.
Producers ==
    [noted |-> FALSE,
     uris |-> {UriA},
     lists |-> {Arr(<<E0>>)},
     ranges |-> {Range(P0, P0)}, positions |-> {P0}, texts |-> {""},
     createUris |-> {UriB}, createOptions |-> {Overwrite},
     deleteUris |-> {UriB}, deleteOptions |-> {Undefined},
     renameFrom |-> {UriA}, renameTo |-> {UriB}, renameOptions |-> {Undefined},
     diagnostics |-> {Diagnostic("d1"), Diagnostic("d2")}]

NoComb == [edits |-> <<>>, result |-> 0]

\* a call that is not combineWorkspaceEdits
Call(U, rec) ==
    /\ IF U.noted THEN last' = rec ELSE UNCHANGED last
    /\ UNCHANGED <<comb, langservers>>

\* the entries instance i holds
Size(i) ==
    Len(Operations(i)) + (IF Truthy(Diagnostics(i)) THEN Len(Diagnostics(i).items) ELSE 0)

RECURSIVE Sum(_)
Sum(ns) == IF ns = <<>> THEN 0 ELSE Head(ns) + Sum(Tail(ns))

\* the entries all instances hold
Total == Sum([i \in Refs |-> Size(i)])

\* whether a producer may put n more entries in an instance
Room(n) == Total + n <= MaxSize

Defined(edits) == IF Truthy(edits) THEN SelectSeq(edits.items, Truthy) ELSE <<>>

DoSet(U) ==
    \/ \E i \in Refs, uri \in U.uris :
        /\ set(i, uri, Undefined)
        /\ Call(U, [op |-> "set", target |-> i, uri |-> uri, edits |-> Undefined])
    \/ \E i \in Refs, uri \in U.uris, edits \in U.lists :
        /\ Room(Len(Defined(edits)))
        /\ set(i, uri, edits)
        /\ Call(U, [op |-> "set", target |-> i, uri |-> uri, edits |-> edits])

DoCreateFile(U) ==
    \E i \in Refs, uri \in U.createUris, options \in U.createOptions :
        /\ Room(1)
        /\ createFile(i, uri, options)
        /\ Call(U, [op |-> "createFile", target |-> i, uri |-> uri, options |-> options])

DoDeleteFile(U) ==
    \E i \in Refs, uri \in U.deleteUris, options \in U.deleteOptions :
        /\ Room(1)
        /\ deleteFile(i, uri, options)
        /\ Call(U, [op |-> "deleteFile", target |-> i, uri |-> uri, options |-> options])

DoRenameFile(U) ==
    \E i \in Refs, from \in U.renameFrom, to \in U.renameTo, options \in U.renameOptions :
        /\ Room(1)
        /\ renameFile(i, from, to, options)
        /\ Call(U, [op |-> "renameFile", target |-> i, from |-> from, to |-> to,
                    options |-> options])

DoReplace(U) ==
    \E i \in Refs, uri \in U.uris, range \in U.ranges, newText \in U.texts :
        /\ Room(1)
        /\ replace(i, uri, range, newText)
        /\ Call(U, [op |-> "replace", target |-> i, uri |-> uri, range |-> range,
                    newText |-> newText])

DoInsert(U) ==
    \E i \in Refs, resource \in U.uris, position \in U.positions, newText \in U.texts :
        /\ Room(1)
        /\ insert(i, resource, position, newText)
        /\ Call(U, [op |-> "insert", target |-> i, uri |-> resource,
                    position |-> position, newText |-> newText])

DoDelete(U) ==
    \E i \in Refs, resource \in U.uris, range \in U.ranges :
        /\ Room(1)
        /\ delete(i, resource, range)
        /\ Call(U, [op |-> "delete", target |-> i, uri |-> resource, range |-> range])

DoAddDiagnostic(U) ==
    \E i \in Refs, diagnostic \in U.diagnostics :
        /\ Room(1)
        /\ addDiagnostic(i, diagnostic)
        /\ Call(U, [op |-> "addDiagnostic", target |-> i, diagnostic |-> diagnostic])

DoGet(U) ==
    \E i \in Refs, uri \in U.uris :
        /\ UNCHANGED store
        /\ Call(U, [op |-> "get", target |-> i, uri |-> uri,
                    result |-> get(Operations(i), uri)])

DoHas(U) ==
    \E i \in Refs, uri \in U.uris :
        /\ UNCHANGED store
        /\ Call(U, [op |-> "has", target |-> i, uri |-> uri,
                    result |-> has(Operations(i), uri)])

DoTextEdits(U) ==
    \E i \in Refs :
        /\ UNCHANGED store
        /\ Call(U, [op |-> "textEdits", target |-> i,
                    result |-> textEdits(Operations(i))])

\* WorkspaceEdit.fromJSON(w.toJSON()); result holds the fields of the instance
\* it returns
DoRoundTrip(U) ==
    \E i \in Refs :
        /\ UNCHANGED store
        /\ Call(U, [op |-> "fromJSON", target |-> i, arg |-> toJSON(Edit(i)),
                    result |-> fromJSON(toJSON(Edit(i)))])

Mutate(U) ==
    \/ DoSet(U)
    \/ DoCreateFile(U)
    \/ DoDeleteFile(U)
    \/ DoRenameFile(U)
    \/ DoReplace(U)
    \/ DoInsert(U)
    \/ DoDelete(U)
    \/ DoAddDiagnostic(U)

\* a producer makes itself an edit, before the host combines any
DoNew ==
    /\ Len(heap) < MaxEdits
    /\ comb = NoComb
    /\ NewWorkspaceEdit
    /\ UNCHANGED <<last, comb, langservers>>

\* The edits of the first n instances are combined, in the order the
\* instances were made, into an edit of at most MaxSize entries.  (The
\* instances are filled in any order, so every order of contents is given.)
DoCombine ==
    \E n \in 0..MaxInputs :
        /\ n <= Len(heap)
        /\ Sum([k \in 1..n |-> Size(k)]) <= MaxSize
        /\ \E r \in 1..MaxEdits :
            /\ combineWorkspaceEdits([k \in 1..n |-> k], r)
            /\ comb' = [edits |-> [k \in 1..n |-> k], result |-> r]
            /\ UNCHANGED <<last, langservers>>

(* One producer building one WorkspaceEdit, querying and serializing it. *)

Init ==
    /\ heap = <<[operations |-> 1, diagnostics |-> 0]>>
    /\ opArr = (1 :> <<>>)
    /\ diagArr = <<>>
    /\ last = [op |-> "new", target |-> 1]
    /\ comb = NoComb
    /\ langservers = <<>>

Next ==
    \/ Mutate(Producer)
    \/ DoGet(Producer)
    \/ DoHas(Producer)
    \/ DoTextEdits(Producer)
    \/ DoRoundTrip(Producer)

Spec == Init /\ [][Next]_vars

(* Producers building their edits, which are combined; the edits and the   *)
(* results of combineWorkspaceEdits are mutated further.                   *)

InitCombine ==
    /\ heap = <<>>
    /\ opArr = <<>>
    /\ diagArr = <<>>
    /\ last = [op |-> "none"]
    /\ comb = NoComb
    /\ langservers = <<>>

NextCombine ==
    \/ DoNew
    \/ Mutate(Producers)
    \/ DoCombine

SpecCombine == InitCombine /\ [][NextCombine]_vars

(* Three producers build the edits a, b and c (the instances 1, 2 and 3),   *)
(* which are then combined in the three groupings.                         *)

\* the calls of combineWorkspaceEdits, in the order made: [a, b] gives 4,
\* [4, c] gives 5, [b, c] gives 6, [a, 6] gives 7, and [a, b, c] gives 8
Groupings == << <<1, 2>>, <<4, 3>>, <<2, 3>>, <<1, 6>>, <<1, 2, 3>> >>

\* the producers are at work until the first combineWorkspaceEdits call
Building == Len(heap) = Len(Groupings[Len(Groupings)])

DoBuild ==
    /\ Building
    /\ Mutate(Producers)

DoGrouping ==
    \E k \in DOMAIN Groupings :
        /\ Len(heap) = Len(Groupings[Len(Groupings)]) + k - 1
        /\ \E r \in 1..(Len(heap) + 1) :
            /\ combineWorkspaceEdits(Groupings[k], r)
            /\ comb' = [edits |-> Groupings[k], result |-> r]
            /\ UNCHANGED <<last, langservers>>

InitGroupings ==
    /\ heap = [i \in 1..Len(Groupings[Len(Groupings)]) |-> [operations |-> i, diagnostics |-> 0]]
    /\ opArr = [i \in 1..Len(Groupings[Len(Groupings)]) |-> <<>>]
    /\ diagArr = <<>>
    /\ last = [op |-> "none"]
    /\ comb = NoComb
    /\ langservers = <<>>

NextGroupings ==
    \/ DoBuild
    \/ DoGrouping

SpecGroupings == InitGroupings /\ [][NextGroupings]_vars

(* ------------------- edits received in serialized form ----------------- *)

\* a discriminant that is no WorkspaceEditOperationType
UnknownType == FileTextEditType + 1

\* entries of the `operations` array of a received SerializedWorkspaceEdit:
\* what toJSON gives for a text edit, a creation and a deletion; a text edit
\* whose uri is already a URL; a rename without options whose from is already
\* a URL; an entry with an unknown discriminant; and a text edit without uri
SerializedTextEdit == toJSONOperation([type |-> FileTextEditType, uri |-> UriA, edit |-> E1])

SerializedEntries ==
    { SerializedTextEdit,
      toJSONOperation([type |-> FileOperationType, from |-> Undefined, to |-> UriB,
                       options |-> Overwrite]),
      toJSONOperation([type |-> FileOperationType, from |-> UriA, to |-> Undefined,
                       options |-> Undefined]),
      With(SerializedTextEdit, "uri", UriB),
      [type |-> FileOperationType, from |-> UriA, to |-> URLtoJSON(UriB)],
      With(SerializedTextEdit, "type", UnknownType),
      [type |-> FileTextEditType, edit |-> TextEditToJSON(E2)] }

\* the received SerializedWorkspaceEdit values of a run
Serialized ==
    LET logs == UNION {[1..n -> SerializedEntries] : n \in 0..(MaxSize - 1)}
    IN {[operations |-> ops] : ops \in logs}
       \cup {[operations |-> ops, diagnostics |-> Arr(<<fromDiagnostic(Diagnostic("d1"))>>)] :
                ops \in logs}

\* WorkspaceEdit.fromJSON(arg) of the value received; it returns the instance
\* it built
DoFromJSON ==
    /\ last.op = "received"
    /\ LET w == fromJSON(last.arg)
       IN Allocate(w.operations, w.diagnostics)
    /\ last' = [op |-> "fromJSON", arg |-> last.arg, outcome |-> "WorkspaceEdit",
                target |-> Len(heap) + 1]
    /\ UNCHANGED <<comb, langservers>>

InitFromJSON ==
    /\ heap = <<>>
    /\ opArr = <<>>
    /\ diagArr = <<>>
    /\ last \in {[op |-> "received", arg |-> arg] : arg \in Serialized}
    /\ comb = NoComb
    /\ langservers = <<>>

NextFromJSON == DoFromJSON

SpecFromJSON == InitFromJSON /\ [][NextFromJSON]_vars

(* ---------------- language servers in the site configuration ----------- *)

\* ConfigState
StateNone == 0

StateEnabled == 1

StateDisabled == 2

\* the language names of a run: two supported languages, and a spelling of
\* one of them with a capital, as a site configuration may have it
LanguageNames == {"go", "Go", "python"}

\* strings.ToLower on the names of a run
ToLower(name) == IF name = "Go" THEN "go" ELSE name

\* StaticInfo: for each supported language, the entry SetDisabled adds
StaticInfo ==
    [language \in {"go", "python"} |->
        [siteConfig |-> [Language |-> language, Address |-> "static", Disabled |-> FALSE]]]

\* checkSupported(language) returns no error
checkSupported(language) == language \in DOMAIN StaticInfo

\* the loop of State over the entries from k on
RECURSIVE StateFrom(_, _, _)
StateFrom(entries, language, k) ==
    IF k > Len(entries) THEN StateNone
    ELSE IF language = ToLower(entries[k].Language)
    THEN (IF entries[k].Disabled THEN StateDisabled ELSE StateEnabled)
    ELSE StateFrom(entries, language, k + 1)

\* State(language): the state and whether an error is returned
State(language) ==
    IF ~checkSupported(language)
    THEN [state |-> StateNone, err |-> TRUE]
    ELSE [state |-> StateFrom(langservers, language, 1), err |-> FALSE]

\* the list as it would be if an entry matched only when spelled as language is
newLangservers_SameSpelling(current, language, disabled) ==
    LET updated == [k \in 1..Len(current) |->
                       IF language = current[k].Language
                       THEN [current[k] EXCEPT !.Disabled = disabled]
                       ELSE current[k]]
        foundExisting == \E k \in 1..Len(current) : language = current[k].Language
    IN IF ~foundExisting
       THEN Append(updated, [StaticInfo[language].siteConfig EXCEPT !.Disabled = disabled])
       ELSE updated

\* the list SetDisabled puts in place of current
newLangservers(current, language, disabled) ==
    LET updated == [k \in 1..Len(current) |->
                       IF language = ToLower(current[k].Language)
                       THEN [current[k] EXCEPT !.Disabled = disabled]
                       ELSE current[k]]
        foundExisting == \E k \in 1..Len(current) : language = ToLower(current[k].Language)
    IN IF ~foundExisting
       THEN Append(updated, [StaticInfo[language].siteConfig EXCEPT !.Disabled = disabled])
       ELSE updated

\* SetDisabled(language, disabled): conf.Edit replaces the langservers
\* property, unless the language is not supported
SetDisabled(language, disabled) ==
    IF ~checkSupported(language)
    THEN UNCHANGED langservers
    ELSE langservers' = newLangservers(langservers, language, disabled)

\* what the last successful SetDisabled of each supported language asked for
NeverSet == [language \in DOMAIN StaticInfo |-> "never"]

DoSetDisabled ==
    \E language \in LanguageNames, disabled \in BOOLEAN :
        /\ Len(langservers) <= MaxLangservers + Cardinality(DOMAIN StaticInfo)
        /\ SetDisabled(language, disabled)
        /\ last' = [op |-> "SetDisabled", language |-> language, disabled |-> disabled,
                    err |-> ~checkSupported(language),
                    asked |-> IF checkSupported(language)
                              THEN [last.asked EXCEPT ![language] =
                                       IF disabled THEN "disabled" ELSE "enabled"]
                              ELSE last.asked]
        /\ UNCHANGED <<store, comb>>

DoState ==
    \E language \in LanguageNames :
        /\ last' = [op |-> "State", language |-> language,
                    result |-> State(language).state, err |-> State(language).err,
                    asked |-> last.asked]
        /\ UNCHANGED <<store, comb, langservers>>

\* the entries a site configuration holds at the start
ConfiguredEntries ==
    [Language : LanguageNames, Address : {"configured"}, Disabled : BOOLEAN]

InitLangservers ==
    /\ heap = <<>>
    /\ opArr = <<>>
    /\ diagArr = <<>>
    /\ last = [op |-> "none", asked |-> NeverSet]
    /\ comb = NoComb
    /\ langservers \in UNION {[1..n -> ConfiguredEntries] : n \in 0..MaxLangservers}

NextLangservers ==
    \/ DoSetDisabled
    \/ DoState

SpecLangservers == InitLangservers /\ [][NextLangservers]_vars

(* ------------------- what an observer can compare ---------------------- *)

\* the same resource: both absent, or identifiers with the same string form
SameResource(a, b) ==
    \/ a.t = "undefined" /\ b.t = "undefined"
    \/ a.t = "URL" /\ b.t = "URL" /\ URLtoString(a) = URLtoString(b)

SameOperation(a, b) ==
    /\ a.type = b.type
    /\ IF a.type = FileOperationType
       THEN /\ DOMAIN a = DOMAIN b
            /\ SameResource(a.from, b.from)
            /\ SameResource(a.to, b.to)
            /\ a.options = b.options
       ELSE /\ DOMAIN a = DOMAIN b
            /\ SameResource(a.uri, b.uri)
            /\ a.edit.t = "TextEdit" /\ b.edit.t = "TextEdit"
            /\ a.edit.range = b.edit.range
            /\ a.edit.newText = b.edit.newText

SameLog(x, y) ==
    /\ Len(x) = Len(y)
    /\ \A k \in 1..Len(x) : SameOperation(x[k], y[k])

SameDiagnostics(x, y) ==
    \/ x.t = "undefined" /\ y.t = "undefined"
    \/ /\ x.t = "array" /\ y.t = "array"
       /\ Len(x.items) = Len(y.items)
       /\ \A k \in 1..Len(x.items) :
              x.items[k].t = "Diagnostic" /\ x.items[k] = y.items[k]

SameEdit(v, w) ==
    /\ SameLog(v.operations, w.operations)
    /\ SameDiagnostics(v.diagnostics, w.diagnostics)

IsFileTextEdit(o) == o.type = FileTextEditType

IsFileOperation(o) == o.type = FileOperationType

\* a FileOperation whose from or to is the resource uri
FileOperationOn(o, uri) ==
    /\ IsFileOperation(o)
    /\ \/ o.from.t = "URL" /\ o.from.href = uri.href
       \/ o.to.t = "URL" /\ o.to.href = uri.href

\* the FileTextEdit entries of ops for the resource uri, in log order
EntriesFor(ops, uri) ==
    SelectSeq(ops, LAMBDA o : IsFileTextEdit(o) /\ o.uri.href = uri.href)

\* their edits
EditsFor(ops, uri) == Map(LAMBDA o : o.edit, EntriesFor(ops, uri))

\* the FileTextEdit for uri that set, replace, insert and delete append
TextEditEntry(uri, edit) == [type |-> FileTextEditType, uri |-> uri, edit |-> edit]

(* -------------------------------- C1 ----------------------------------- *)

\* C1: for every WorkspaceEdit w built by the mutation operations,
\* fromJSON(w.toJSON()) has an operation log equal to w's entry by entry and in
\* the same order (same tag, same resource strings, same range and newText,
\* same options) and a diagnostics list equal to w's, absent exactly when w's
\* is absent.
C1_RoundTrip ==
    /\ \A i \in Refs : SameEdit(fromJSON(toJSON(Edit(i))), Edit(i))
    /\ last.op = "fromJSON" => SameEdit(last.result, Edit(last.target))

\* a round trip of an edit that holds a file operation, a text edit and a diagnostic
C1_Witness ==
    /\ last.op = "fromJSON"
    /\ \E k \in 1..Len(Operations(last.target)) : IsFileOperation(Operations(last.target)[k])
    /\ \E k \in 1..Len(Operations(last.target)) : IsFileTextEdit(Operations(last.target)[k])
    /\ Truthy(Diagnostics(last.target))
    /\ SameEdit(last.result, Edit(last.target))

(* -------------------------------- C6 ----------------------------------- *)

\* the place in ops of the first FileTextEdit for the resource uri
FirstEntry(ops, uri) ==
    CHOOSE k \in 1..Len(ops) :
        /\ IsFileTextEdit(ops[k]) /\ ops[k].uri.href = uri.href
        /\ \A j \in 1..(k - 1) : ~(IsFileTextEdit(ops[j]) /\ ops[j].uri.href = uri.href)

GroupsOf(ops, g) ==
    \* one group per resource that has a FileTextEdit
    /\ \A k, l \in 1..Len(g) : g[k][1].href = g[l][1].href => k = l
    /\ {g[k][1].href : k \in 1..Len(g)}
           = {ops[k].uri.href : k \in {j \in 1..Len(ops) : IsFileTextEdit(ops[j])}}
    \* in the order of each resource's first FileTextEdit
    /\ \A k, l \in 1..Len(g) :
           k < l => FirstEntry(ops, g[k][1]) < FirstEntry(ops, g[l][1])
    \* each group's edits in log order
    /\ \A k \in 1..Len(g) : g[k][2] = EditsFor(ops, g[k][1])

\* C6: textEdits() yields exactly one group per resource string that occurs in
\* a FileTextEdit of the log, the groups in the order of each resource's first
\* FileTextEdit (file operations create and reorder nothing), the edits of a
\* group in log order.
C6_Grouping ==
    /\ \A i \in Refs : GroupsOf(Operations(i), textEdits(Operations(i)))
    /\ last.op = "textEdits" => GroupsOf(Operations(last.target), last.result)

\* edits added for B, A, B: the groups are [B, A] and B's group has both edits
C6_Witness ==
    /\ last.op = "textEdits"
    /\ LET ops == Operations(last.target) IN
        /\ Len(ops) = 3
        /\ \A k \in 1..3 : IsFileTextEdit(ops[k])
        /\ ops[1].uri = UriB /\ ops[2].uri = UriA /\ ops[3].uri = UriB
        /\ ops[1].edit # ops[3].edit
        /\ last.result = << <<UriB, <<ops[1].edit, ops[3].edit>> >>,
                            <<UriA, <<ops[2].edit>> >> >>

(* -------------------------------- C7 ----------------------------------- *)

\* C7: get(uri) is the subsequence, in log order, of the edits of exactly the
\* FileTextEdit operations whose uri string equals uri's (empty when there is
\* none); has(uri) is true iff get(uri) is non-empty; file operations that
\* reference uri never make has(uri) true.
C7_GetHas ==
    /\ \A i \in Refs, uri \in Uris :
        /\ get(Operations(i), uri) = EditsFor(Operations(i), uri)
        /\ has(Operations(i), uri) <=> get(Operations(i), uri) # <<>>
    /\ last.op = "get" => last.result = EditsFor(Operations(last.target), last.uri)
    /\ last.op = "has" => (last.result <=> EntriesFor(Operations(last.target), last.uri) # <<>>)

\* has(uri) answered false on a log in which a file operation references uri
\* and another resource has a text edit
C7_Witness ==
    /\ last.op = "has" /\ last.result = FALSE
    /\ LET ops == Operations(last.target) IN
        /\ \E k \in 1..Len(ops) : FileOperationOn(ops[k], last.uri)
        /\ \E k \in 1..Len(ops) : IsFileTextEdit(ops[k])

(* -------------------------------- C8 ----------------------------------- *)

\* the call set(uri, edits) with a non-empty list has just been made
SetOfList == last.op = "set" /\ Truthy(last.edits) /\ last.edits.items # <<>>

\* C8: set(uri, edits) with a non-empty list appends and never replaces: with
\* get(uri) = L before the call, get(uri) after it is L followed by the
\* defined entries of edits in list order, and the new FileTextEdit operations
\* are the last entries of the log.
C8_SetAppends ==
    [][\A i \in Refs, uri \in Uris :
        (SetOfList' /\ last'.target = i /\ last'.uri = uri) =>
          LET defined == SelectSeq(last'.edits.items, LAMBDA e : e.t = "TextEdit")
          IN /\ get(Operations(i)', uri) = get(Operations(i), uri) \o defined
             /\ Operations(i)' = Operations(i)
                    \o [k \in 1..Len(defined) |-> TextEditEntry(uri, defined[k])]
      ]_vars

\* set(uri, [e2]) made on a log that already held another edit e1 for uri:
\* get(uri) is [e1, e2]
C8_Witness ==
    /\ SetOfList
    /\ Len(last.edits.items) = 1
    /\ LET g == get(Operations(last.target), last.uri) IN
        /\ Len(g) = 2
        /\ g[1] # g[2]
        /\ g[2] = last.edits.items[1]

(* -------------------------------- C9 ----------------------------------- *)

\* the call set(uri, undefined) has just been made
SetOfUndefined == last.op = "set" /\ ~Truthy(last.edits)

\* C9: set(uri, undefined) removes exactly the FileTextEdit operations whose
\* uri string equals uri's: afterwards get(uri) = [] and has(uri) = false, every
\* other operation (every file operation, those on uri included, and every
\* FileTextEdit for another resource) is still in the log in the same relative
\* order, and the diagnostics list is unchanged.
C9_SetClears ==
    [][\A i \in Refs, uri \in Uris :
        (SetOfUndefined' /\ last'.target = i /\ last'.uri = uri) =>
             /\ get(Operations(i)', uri) = <<>>
             /\ ~has(Operations(i)', uri)
             /\ Operations(i)' = SelectSeq(Operations(i),
                    LAMBDA o : ~(IsFileTextEdit(o) /\ o.uri.href = uri.href))
             /\ Diagnostics(i)' = Diagnostics(i)
      ]_vars

\* after set(uri, undefined) the log keeps a file operation on uri and a text
\* edit for another resource, and a diagnostic is still attached
C9_Witness ==
    /\ SetOfUndefined
    /\ LET ops == Operations(last.target) IN
        /\ Len(ops) = 2
        /\ \E k \in 1..2 : FileOperationOn(ops[k], last.uri)
        /\ \E k \in 1..2 : IsFileTextEdit(ops[k])
    /\ Truthy(Diagnostics(last.target))

(* ------------------------------ C2 - C5 -------------------------------- *)

\* the step being taken is a call of combineWorkspaceEdits
Combined == comb' # comb

\* the operations and the diagnostics of instance i after the step
OperationsAfter(i) == opArr'[heap'[i].operations]

DiagnosticsAfter(i) ==
    IF heap'[i].diagnostics = 0 THEN Undefined ELSE Arr(diagArr'[heap'[i].diagnostics])

\* the instances edits refers to with a diagnostics list
WithDiagnostics(edits) == SelectSeq(edits, LAMBDA i : Truthy(Diagnostics(i)))

\* no array is held by two instances
NoSharedArray ==
    \A i, j \in Refs :
        i # j => /\ heap[i].operations # heap[j].operations
                 /\ heap[i].diagnostics = 0 \/ heap[i].diagnostics # heap[j].diagnostics

\* the instances the step changes (the operations or the diagnostics of)
Changed ==
    {i \in Refs : i \notin Refs' \/ OperationsAfter(i) # Operations(i)
                                 \/ DiagnosticsAfter(i) # Diagnostics(i)}

\* C2: for two or more inputs combineWorkspaceEdits returns an edit whose log
\* is the concatenation of the inputs' logs in input order, each input's own
\* order kept, and whose diagnostics list is the concatenation in input order
\* of the diagnostics lists of the inputs that have one; the result has no
\* diagnostics list when no input has one.
C2_CombineConcatenates ==
    [][(Combined /\ Len(comb'.edits) >= 2) =>
        LET edits == comb'.edits
            have == WithDiagnostics(edits)
        IN  /\ comb'.result \in Refs'
            /\ SameLog(OperationsAfter(comb'.result),
                       Flatten([k \in 1..Len(edits) |-> Operations(edits[k])]))
            /\ IF have = <<>>
               THEN DiagnosticsAfter(comb'.result) = Undefined
               ELSE SameDiagnostics(DiagnosticsAfter(comb'.result),
                        Arr(Flatten([k \in 1..Len(have) |-> Diagnostics(have[k]).items])))
      ]_vars

\* combine([w1, w2]) with w1 = ([op1], [d1]) and w2 = ([op2], no diagnostics)
\* has given ([op1, op2], [d1])
C2_Witness ==
    /\ comb.edits = <<1, 2>> /\ comb.result = 3
    /\ Len(Operations(1)) = 1 /\ Len(Operations(2)) = 1
    /\ Operations(1) # Operations(2)
    /\ Truthy(Diagnostics(1)) /\ ~Truthy(Diagnostics(2))
    /\ Operations(3) = Operations(1) \o Operations(2)
    /\ Diagnostics(3) = Diagnostics(1)

\* C3: combineWorkspaceEdits of two or more inputs does not mutate any input,
\* and the edit it returns is a new instance that shares no array with any
\* instance: from then on a mutation changes the result or an input, never
\* both.
C3_CombineIsolated ==
    [][/\ (Combined /\ Len(comb'.edits) >= 2) =>
            /\ comb'.result \notin Refs /\ comb'.result \in Refs'
            /\ Changed = {}
            /\ \A i \in Refs : heap'[i] = heap[i]
       /\ NoSharedArray'
       /\ (~Combined /\ Len(comb.edits) >= 2) => Cardinality(Changed) <= 1
      ]_vars

\* after combine([w1, w2]) the result has been changed, or an input has: the
\* result is no longer the concatenation of the inputs, which hold operations
C3_Witness ==
    /\ comb.edits = <<1, 2>> /\ comb.result = 3
    /\ Operations(1) # <<>> /\ Operations(2) # <<>>
    /\ Operations(3) # Operations(1) \o Operations(2)

\* C4: combineWorkspaceEdits([w]) returns the very instance w: whatever is
\* done through the returned reference or through w afterwards (set(uri,
\* undefined), which replaces the log, included), the two show the same
\* operations and the same diagnostics.
C4_SingleIsSame ==
    Len(comb.edits) = 1 =>
        /\ comb.result \in Refs
        /\ Edit(comb.result) = Edit(comb.edits[1])
        /\ comb.result = comb.edits[1]

\* combine([w]) was called and w now holds operations and a diagnostic
C4_Witness ==
    /\ Len(comb.edits) = 1
    /\ Operations(comb.result) # <<>>
    /\ Truthy(Diagnostics(comb.edits[1]))

\* C5: combineWorkspaceEdits([]) returns a new WorkspaceEdit with an empty log
\* and no diagnostics list, which shares nothing with the instances there are
\* (those returned by earlier calls included): a mutation of one leaves the
\* others as they are.
C5_CombineEmpty ==
    [][/\ (Combined /\ comb'.edits = <<>>) =>
            /\ comb'.result \notin Refs /\ comb'.result \in Refs'
            /\ OperationsAfter(comb'.result) = <<>>
            /\ DiagnosticsAfter(comb'.result) = Undefined
            /\ Changed = {}
       /\ NoSharedArray'
       /\ ~Combined => Cardinality(Changed) <= 1
      ]_vars

\* the second of two instances is what combine([]) returned; it has been
\* filled since, and the first is still empty
C5_Witness ==
    /\ comb.edits = <<>> /\ comb.result = 2
    /\ Operations(2) # <<>>
    /\ Operations(1) = <<>> /\ ~Truthy(Diagnostics(1))

(* -------------------------------- C10 ---------------------------------- *)

\* the received entry op has an unknown discriminant, or is a text edit without
\* its uri or its edit
MalformedEntry(op) ==
    \/ op.type \notin {FileOperationType, FileTextEditType}
    \/ op.type = FileTextEditType /\ ~({"uri", "edit"} \subseteq DOMAIN op)

Malformed(arg) == \E k \in 1..Len(arg.operations) : MalformedEntry(arg.operations[k])

\* C10: WorkspaceEdit.fromJSON of a serialized edit with an entry whose
\* discriminant is neither FileOperation nor FileTextEdit, or with a
\* FileTextEdit entry that lacks uri or edit, reports MalformedEdit and returns
\* no WorkspaceEdit in which that entry has become an operation.
C10_MalformedReported ==
    (last.op = "fromJSON" /\ Malformed(last.arg)) =>
        /\ last.outcome = "MalformedEdit"
        /\ Len(heap) = 0

(* -------------------------------- C11 ---------------------------------- *)

\* the last entry of the log of the instance the last call was made on
LastEntry == Operations(last.target)[Len(Operations(last.target))]

\* C11: every FileTextEdit of a log built by the mutation operations holds a
\* defined edit, a TextEdit: set(uri, edits) has appended the defined entries
\* of edits only, and replace, insert and delete have appended an operation
\* with the TextEdit they construct.
C11_EditDefined ==
    /\ \A i \in Refs : \A k \in 1..Len(Operations(i)) :
           IsFileTextEdit(Operations(i)[k]) =>
               /\ Truthy(Operations(i)[k].edit)
               /\ Operations(i)[k].edit.t = "TextEdit"
    /\ (last.op = "set" /\ Truthy(last.edits) /\ Defined(last.edits) # <<>>) =>
           LET ops == Operations(last.target)
               n == Len(Defined(last.edits))
           IN /\ Len(ops) >= n
              /\ \A k \in 1..n :
                     ops[Len(ops) - n + k] = TextEditEntry(last.uri, Defined(last.edits)[k])
    /\ last.op = "replace" =>
           LastEntry = TextEditEntry(last.uri, TextEdit(last.range, last.newText))
    /\ last.op = "insert" =>
           LastEntry = TextEditEntry(last.uri,
                           TextEdit(Range(last.position, last.position), last.newText))
    /\ last.op = "delete" =>
           LastEntry = TextEditEntry(last.uri, TextEdit(last.range, ""))

\* set was given a list with a hole between two edits, and the log ends with
\* the two edits
C11_Witness ==
    /\ last.op = "set" /\ Truthy(last.edits)
    /\ \E k \in 1..Len(last.edits.items) : ~Truthy(last.edits.items[k])
    /\ Len(Defined(last.edits)) = 2
    /\ Len(Operations(last.target)) >= 2
    /\ LastEntry.edit = Defined(last.edits)[2]

(* -------------------------------- C12 ---------------------------------- *)

\* the items of a diagnostics field, none when the field is undefined
Items(diagnostics) == IF Truthy(diagnostics) THEN diagnostics.items ELSE <<>>

IsPrefix(x, y) == Len(x) <= Len(y) /\ SubSeq(y, 1, Len(x)) = x

\* C12: the diagnostics list of an instance is absent when the instance is
\* made; addDiagnostic makes it (on the first call) and appends to it; no
\* other call changes it or makes it; so the list never shrinks, what it held
\* stays a prefix of what it holds, and toJSON() carries a diagnostics list
\* exactly when the instance has one, that is when addDiagnostic was called
\* on it.
C12_DiagnosticsAppendOnly ==
    /\ \A i \in Refs : /\ Diagnostics(i) = Undefined
                       /\ ~Truthy(Field(toJSON(Edit(i)), "diagnostics"))
    /\ [][\A i \in Refs :
            /\ i \in Refs'
            /\ Truthy(Diagnostics(i)) => Truthy(DiagnosticsAfter(i))
            /\ IsPrefix(Items(Diagnostics(i)), Items(DiagnosticsAfter(i)))
            /\ IF last'.op = "addDiagnostic" /\ last'.target = i
               THEN /\ Truthy(DiagnosticsAfter(i))
                    /\ Items(DiagnosticsAfter(i))
                           = Append(Items(Diagnostics(i)), last'.diagnostic)
               ELSE DiagnosticsAfter(i) = Diagnostics(i)
            /\ Truthy(Field(toJSON(Edit(i)), "diagnostics"))' = Truthy(DiagnosticsAfter(i))
            /\ Truthy(DiagnosticsAfter(i)) =>
                   Len(Field(toJSON(Edit(i)), "diagnostics").items)'
                       = Len(Items(DiagnosticsAfter(i)))
         ]_vars

\* addDiagnostic was called a second time, with another diagnostic, and the
\* list holds the two in call order
C12_Witness ==
    /\ last.op = "addDiagnostic"
    /\ Truthy(Diagnostics(last.target))
    /\ Len(Diagnostics(last.target).items) = 2
    /\ Diagnostics(last.target).items[1] # Diagnostics(last.target).items[2]
    /\ Diagnostics(last.target).items[2] = last.diagnostic

(* -------------------------------- C13 ---------------------------------- *)

\* the step appends entry to the log of instance i and changes nothing else
AppendsOnly(i, entry) ==
    /\ OperationsAfter(i) = Append(Operations(i), entry)
    /\ Changed = {i}
    /\ DiagnosticsAfter(i) = Diagnostics(i)
    /\ heap' = heap

\* C13: insert(uri, p, text) leaves the instance in the state in which
\* replace(uri, Range(p, p), text) leaves it, and delete(uri, r) in the state
\* in which replace(uri, r, "") leaves it; each appends exactly one
\* FileTextEdit at the end of the log.
C13_InsertDeleteAreReplace ==
    [][\A i \in Refs, uri \in Uris :
        /\ \A p \in Producer.positions, text \in Producer.texts :
             last' = [op |-> "insert", target |-> i, uri |-> uri,
                      position |-> p, newText |-> text]
               => /\ replace(i, uri, Range(p, p), text)
                  /\ AppendsOnly(i, TextEditEntry(uri, TextEdit(Range(p, p), text)))
        /\ \A r \in Producer.ranges :
             last' = [op |-> "delete", target |-> i, uri |-> uri, range |-> r]
               => /\ replace(i, uri, r, "")
                  /\ AppendsOnly(i, TextEditEntry(uri, TextEdit(r, "")))
      ]_vars

\* delete(uri, r) with a range that is not empty has been called on a log
\* that held an operation, and the log ends with the edit replace(uri, r, "")
\* appends
C13_Witness ==
    /\ last.op = "delete"
    /\ last.range.start # last.range.end
    /\ Len(Operations(last.target)) >= 2
    /\ LastEntry = TextEditEntry(last.uri, TextEdit(last.range, ""))

(* -------------------------------- C14 ---------------------------------- *)

FileOperationEntry(from, to, options) ==
    [type |-> FileOperationType, from |-> from, to |-> to, options |-> options]

\* the step leaves what get, has and textEdits give on instance i as it was
QueriesKept(i) ==
    /\ \A u \in Uris : /\ get(OperationsAfter(i), u) = get(Operations(i), u)
                       /\ has(OperationsAfter(i), u) = has(Operations(i), u)
    /\ textEdits(OperationsAfter(i)) = textEdits(Operations(i))

\* the last entry of toJSON().operations of instance i after the step
SerializedLastAfter(i) ==
    LET ops == Map(toJSONOperation, OperationsAfter(i)) IN ops[Len(ops)]

\* C14: createFile(uri, options), deleteFile(uri, options) and
\* renameFile(from, to, options) each append exactly one FileOperation at the
\* end of the log, with (no from, to = uri), (from = uri, no to) and (from, to);
\* nothing is validated: a rename with from equal to to is appended and
\* serialized as given; get(u), has(u) and textEdits() and the diagnostics are
\* as they were.
C14_FileOperationsAppend ==
    [][\A i \in Refs :
        /\ (last'.op = "createFile" /\ last'.target = i) =>
              /\ AppendsOnly(i, FileOperationEntry(Undefined, last'.uri, last'.options))
              /\ QueriesKept(i)
        /\ (last'.op = "deleteFile" /\ last'.target = i) =>
              /\ AppendsOnly(i, FileOperationEntry(last'.uri, Undefined, last'.options))
              /\ QueriesKept(i)
        /\ (last'.op = "renameFile" /\ last'.target = i) =>
              /\ AppendsOnly(i, FileOperationEntry(last'.from, last'.to, last'.options))
              /\ QueriesKept(i)
              /\ SerializedLastAfter(i).type = FileOperationType
              /\ SerializedLastAfter(i).from = Str(URLtoString(last'.from))
              /\ SerializedLastAfter(i).to = Str(URLtoString(last'.to))
              /\ SerializedLastAfter(i).options = last'.options
      ]_vars

\* a file was renamed to itself on a log that holds a text edit for it: the
\* log ends with that rename, and get still gives the text edit
C14_Witness ==
    /\ last.op = "renameFile"
    /\ last.from = last.to
    /\ LastEntry = FileOperationEntry(last.from, last.to, last.options)
    /\ get(Operations(last.target), last.from) # <<>>

(* -------------------------------- C15 ---------------------------------- *)

\* x is y with some entries left out, the others in the order they have in y
RECURSIVE IsSubsequence(_, _)
IsSubsequence(x, y) ==
    IF x = <<>> THEN TRUE
    ELSE IF y = <<>> THEN FALSE
    ELSE IF Head(x) = Head(y) THEN IsSubsequence(Tail(x), Tail(y))
    ELSE IsSubsequence(x, Tail(y))

\* C15: the log keeps insertion order: a call of set(uri, undefined) only
\* leaves entries out, the others staying in order; every other call leaves
\* the log it found as a prefix of the log it leaves, new entries coming at
\* the end.
C15_InsertionOrder ==
    [][\A i \in Refs :
        IF last'.op = "set" /\ ~Truthy(last'.edits)
        THEN IsSubsequence(OperationsAfter(i), Operations(i))
        ELSE IsPrefix(Operations(i), OperationsAfter(i))
      ]_vars

\* a file operation was appended to a log that held two different entries,
\* which are still its first two
C15_Witness ==
    /\ last.op = "createFile"
    /\ Len(Operations(last.target)) = 3
    /\ Operations(last.target)[1] # Operations(last.target)[2]
    /\ IsFileTextEdit(Operations(last.target)[1])
    /\ LastEntry = FileOperationEntry(Undefined, last.uri, last.options)
    /\ LastEntry # Operations(last.target)[1] /\ LastEntry # Operations(last.target)[2]

(* -------------------------------- C16 ---------------------------------- *)

ResourceKeys == {"uri", "from", "to"}

\* the received entry with every resource that is a URL given as its string
AllStrings(op) ==
    [key \in DOMAIN op |->
        IF key \in ResourceKeys /\ op[key].t = "URL" THEN URLtoJSON(op[key]) ELSE op[key]]

\* the string form of a received resource, a string or a URL
StringForm(v) == IF IsString(v) THEN v.s ELSE URLtoString(v)

\* two operations with the same keys, resources of the same string form, and
\* everything else equal
SameEntry(a, b) ==
    /\ DOMAIN a = DOMAIN b
    /\ \A key \in DOMAIN a :
           IF key \in ResourceKeys THEN SameResource(a[key], b[key]) ELSE a[key] = b[key]

\* C16: fromJSON of a well-formed serialized edit some of whose resources
\* (uri, from, to) are URLs already gives the log that it gives for the same
\* edit with all resources as strings: entry by entry in the order received,
\* every resource given is the URL of its string form, and a from or to that
\* is absent stays absent.
C16_PartlyHydrated ==
    (last.op = "fromJSON" /\ ~Malformed(last.arg)) =>
        LET received == last.arg.operations
            got == Operations(last.target)
            ref == fromJSON([operations |-> Map(AllStrings, received)]).operations
        IN /\ Len(got) = Len(received) /\ Len(ref) = Len(received)
           /\ \A k \in 1..Len(received) :
                  /\ SameEntry(got[k], ref[k])
                  /\ got[k].type = received[k].type
                  /\ \A key \in ResourceKeys \cap DOMAIN got[k] :
                         IF Truthy(Field(received[k], key))
                         THEN /\ got[k][key].t = "URL"
                              /\ URLtoString(got[k][key]) = StringForm(received[k][key])
                         ELSE got[k][key] = Undefined

\* a well-formed edit was received with a resource that is a URL already, a
\* resource that is a string and an absent one, and fromJSON has returned
C16_Witness ==
    /\ last.op = "fromJSON" /\ ~Malformed(last.arg)
    /\ \E k \in 1..Len(last.arg.operations) :
           \E key \in ResourceKeys \cap DOMAIN last.arg.operations[k] :
               last.arg.operations[k][key].t = "URL"
    /\ \E k \in 1..Len(last.arg.operations) :
           /\ last.arg.operations[k].type = FileOperationType
           /\ IsString(last.arg.operations[k].to)
           /\ ~Truthy(last.arg.operations[k].from)
    /\ Len(Operations(last.target)) = 2

(* -------------------------------- C17 ---------------------------------- *)

\* the groups g that textEdits() yields agree with get and has on the log ops
AgreesWithGetHas(ops, g) ==
    /\ \A k, l \in 1..Len(g) : URLtoString(g[k][1]) = URLtoString(g[l][1]) => k = l
    /\ {URLtoString(g[k][1]) : k \in 1..Len(g)}
           = {URLtoString(u) : u \in {v \in Uris : has(ops, v)}}
    /\ \A k \in 1..Len(g) : g[k][2] = get(ops, g[k][1])

\* C17: textEdits() yields, once each, exactly the resources u with has(u)
\* true, each with the list get(u); textEdits, get and has change neither
\* the log nor the diagnostics, so that textEdits() called again yields what
\* it yielded.
C17_TextEditsAgree ==
    /\ [](/\ \A i \in Refs : AgreesWithGetHas(Operations(i), textEdits(Operations(i)))
          /\ last.op = "textEdits" =>
                 /\ AgreesWithGetHas(Operations(last.target), last.result)
                 /\ textEdits(Operations(last.target)) = last.result)
    /\ [][last'.op \in {"textEdits", "get", "has"} => Changed = {} /\ store' = store]_vars

\* textEdits() has yielded two groups, one of them with two edits
C17_Witness ==
    /\ last.op = "textEdits"
    /\ Len(last.result) = 2
    /\ \E k \in 1..2 : Len(last.result[k][2]) = 2
    /\ \A k \in 1..2 : last.result[k][2] = get(Operations(last.target), last.result[k][1])

(* -------------------------------- C18 ---------------------------------- *)

\* the call set(uri, []) has just been made
SetOfEmptyList == last.op = "set" /\ Truthy(last.edits) /\ last.edits.items = <<>>

\* C18: set(uri, []) with a list that is empty, not undefined, changes
\* nothing: the log and the diagnostics are as they were, and get(uri) and
\* has(uri) give what they gave.
C18_SetEmptyList ==
    [][\A i \in Refs :
        (SetOfEmptyList' /\ last'.target = i) =>
            /\ Changed = {}
            /\ OperationsAfter(i) = Operations(i)
            /\ DiagnosticsAfter(i) = Diagnostics(i)
            /\ \A u \in Uris : /\ get(OperationsAfter(i), u) = get(Operations(i), u)
                               /\ has(OperationsAfter(i), u) = has(Operations(i), u)
      ]_vars

\* set(uri, []) was called on a log that holds two text edits for uri, and
\* holds them still
C18_Witness ==
    /\ SetOfEmptyList
    /\ has(Operations(last.target), last.uri)
    /\ Len(get(Operations(last.target), last.uri)) = 2

(* -------------------------------- C19 ---------------------------------- *)

\* the groupings have all been combined
Grouped == Len(heap) = Len(Groupings[Len(Groupings)]) + Len(Groupings)

\* C19: combineWorkspaceEdits is associative up to what an observer can
\* compare, with the empty edit as identity: for edits a, b, c built by the
\* mutation operations, combine([combine([a, b]), c]), combine([a,
\* combine([b, c])]) and combine([a, b, c]) have the same log and the same
\* diagnostics (absent in all or present in all), and combine([a, b]) with b
\* a new, empty WorkspaceEdit has the log and the diagnostics of a, absence
\* included.
C19_CombineAssociative ==
    /\ Grouped =>
           /\ SameEdit(Edit(5), Edit(7))
           /\ SameEdit(Edit(5), Edit(8))
           /\ SameEdit(Edit(7), Edit(8))
    /\ (Len(heap) >= 4 /\ Size(2) = 0) => SameEdit(Edit(4), Edit(1))

\* a, b and c each hold something, one of them a diagnostic and two of them
\* different operations, and the three groupings have been combined
C19_Witness ==
    /\ Grouped
    /\ \A i \in 1..3 : Size(i) > 0
    /\ Truthy(Diagnostics(8))
    /\ Len(Operations(8)) = 2
    /\ Operations(8)[1] # Operations(8)[2]
    /\ SameEdit(Edit(5), Edit(8))

(* -------------------------------- C20 ---------------------------------- *)

\* the places of the entries of the list entries for language
EntriesOf(entries, language) ==
    {k \in 1..Len(entries) : ToLower(entries[k].Language) = language}

\* C20: for a supported language, State(language) is StateDisabled when the
\* last successful SetDisabled(language, d) had d true and StateEnabled when
\* it had d false, and StateNone only when the configuration has no entry for
\* the language; SetDisabled(language, d) adds an entry, at the end, only when
\* no entry is for the language, so that it never makes a second one, and it
\* leaves the entries of the other languages as they are, where they are.
C20_LangserverState ==
    /\ [](\A language \in DOMAIN StaticInfo :
            /\ last.asked[language] = "disabled" => State(language).state = StateDisabled
            /\ last.asked[language] = "enabled" => State(language).state = StateEnabled
            /\ State(language).state = StateNone => EntriesOf(langservers, language) = {}
            /\ (last.op = "State" /\ last.language = language) =>
                   last.result = State(language).state /\ ~last.err)
    /\ [][\A language \in DOMAIN StaticInfo :
            (last'.op = "SetDisabled" /\ last'.language = language) =>
                /\ \A k \in 1..Len(langservers) :
                       /\ k \in DOMAIN langservers'
                       /\ IF k \in EntriesOf(langservers, language)
                          THEN langservers'[k] = [langservers[k] EXCEPT !.Disabled = last'.disabled]
                          ELSE langservers'[k] = langservers[k]
                /\ IF EntriesOf(langservers, language) = {}
                   THEN /\ Len(langservers') = Len(langservers) + 1
                        /\ EntriesOf(langservers', language) = {Len(langservers')}
                        /\ langservers'[Len(langservers')].Disabled = last'.disabled
                   ELSE Len(langservers') = Len(langservers)
                /\ Cardinality(EntriesOf(langservers', language))
                       = IF EntriesOf(langservers, language) = {} THEN 1
                         ELSE Cardinality(EntriesOf(langservers, language))
         ]_vars

\* go was disabled in a configuration that spells it Go and that has an entry
\* for python before it: the entry is disabled, it is still the only one for
\* go, and State(go) has answered StateDisabled
C20_Witness ==
    /\ last.op = "State" /\ last.language = "go" /\ last.result = StateDisabled
    /\ last.asked["go"] = "disabled"
    /\ Len(langservers) = 2
    /\ ToLower(langservers[1].Language) = "python"
    /\ langservers[2].Language = "Go" /\ langservers[2].Disabled

====
